---- MODULE Spec2Model ----
(***************************************************************************)
(* Model of the erda eBPF agent core:                                      *)
(*   - pkg/plugins/protocols/rpc/rpc.go: the probe registry loop (Gather), *)
(*     the consumer task (sendMetrics) and the RPC enricher                *)
(*     (convertRpc2Metric);                                                *)
(*   - pkg/plugins/protocols/http/meta/provider.go: the HTTP enricher      *)
(*     (Convert).                                                          *)
(***************************************************************************)
EXTENDS Integers, Sequences, FiniteSets, TLC

\* ------------------------------------------------------------------ bounds
\* interface indexes are 1..MaxIface
MaxIface == 3
\* longest initial snapshot returned by GetVethes
MaxSnapshot == 2
\* number of netlink events the listener delivers in one run
MaxEvents == 3
\* events waiting in the vethEvents channel
MaxQueue == 1
\* capacity of p.ch; stands for the 100 of make(chan rpcebpf.Metric, 100)
ChCap == 1
\* capacity of the outbound channel c, chosen by the caller of Gather
OutCap == 1
\* number of raw events the probes submit in one run
MaxEmitted == 3

Ifaces == 1..MaxIface

\* GetVethes returns a slice: the same link index may be listed more than once
Snapshots == UNION {[1..n -> Ifaces] : n \in 0..MaxSnapshot}

\* kprobe.LinkAdd, kprobe.LinkDelete and any other event type
LinkAdd == "LinkAdd"
LinkDelete == "LinkDelete"
LinkOther == "LinkOther"
EventTypes == {LinkAdd, LinkDelete, LinkOther}
VethEvents == [type : EventTypes, index : Ifaces]

VARIABLES
    pc,          \* position of the Gather goroutine
    vethes,      \* snapshot descriptors the first loop has not visited yet
    rpcProbes,   \* p.rpcProbes: link index -> probe (its position in probes)
    locked,      \* p.Lock() is held
    probes,      \* every rpcebpf.Ebpf constructed so far: [index, st, closes]
    event,       \* the event the loop is handling
    vethEvents,  \* the channel RegisterNetLinkListener returned
    registered,  \* RegisterNetLinkListener has been called
    delivered,   \* number of events put on vethEvents
    lastEvt,     \* history: per link index, the last delivered event
    spc,         \* position of the sendMetrics goroutine
    ch,          \* p.ch, the shared raw-event channel
    c,           \* the outbound metric channel handed to Gather
    mc,          \* the metric sendMetrics holds while it sends
    emitted,     \* number of raw events the probes submitted
    sent,        \* history: elapsed_sum of each metric sent on c, in order
    convIn,      \* enricher input of the last conversion
    convOut      \* enricher output of the last conversion

regVars == <<pc, vethes, rpcProbes, locked, probes, event, vethEvents,
             registered, delivered, lastEvt>>
pipeVars == <<ch, c, mc, emitted, sent>>
convVars == <<convIn, convOut>>
vars == <<regVars, spc, pipeVars, convVars>>

NoEvent == [type |-> "none", index |-> 0]
\* a nil pointer, an absent value
Nil == [kind |-> "nil"]

\* a map with key k removed / set
MapDelete(m, k) == [x \in (DOMAIN m) \ {k} |-> m[x]]
MapPut(m, k, v) == [x \in (DOMAIN m) \cup {k} |-> IF x = k THEN v ELSE m[x]]

Init ==
    /\ pc = "parse"
    /\ vethes = <<>>
    /\ rpcProbes = <<>>
    /\ locked = FALSE
    /\ probes = <<>>
    /\ event = NoEvent
    /\ vethEvents = <<>>
    /\ registered = FALSE
    /\ delivered = 0
    /\ lastEvt = [i \in Ifaces |-> "none"]
    /\ spc = "off"
    /\ ch = <<>>
    /\ c = <<>>
    /\ mc = Nil
    /\ emitted = 0
    /\ sent = <<>>
    /\ convIn = Nil
    /\ convOut = Nil

\* ------------------------------------------------------- workload directory
\* the IPv4 addresses raw events carry
IPs == {"10.0.0.1", "10.0.0.2", "10.0.0.3", "8.8.8.8"}

\* kprobeHelper.GetPodByUID(ip): the Pod at ip, or Nil when err != nil
GetPodByUID(ip) ==
    CASE ip = "10.0.0.1" -> [kind |-> "Pod", name |-> "podA"]
      [] ip = "10.0.0.2" -> [kind |-> "Pod", name |-> "podB"]
      [] OTHER -> Nil

\* kprobeHelper.GetService(ip): the Service at ip, or Nil when err != nil
GetService(ip) ==
    CASE ip = "10.0.0.2" -> [kind |-> "Service", name |-> "svcB"]
      [] ip = "10.0.0.3" -> [kind |-> "Service", name |-> "svcC"]
      [] OTHER -> Nil

\* pod.Labels[key], pod.Annotations[key], string(pod.UID), pod.Status.HostIP
Labels(pod, key) == pod.name \o ".Labels[" \o key \o "]"
Annotations(pod, key) == pod.name \o ".Annotations[" \o key \o "]"
UID(pod) == pod.name \o ".UID"
HostIP(pod) == pod.name \o ".Status.HostIP"

\* ------------------------------------------------------------ Go helpers
DecimalDigit == <<"0", "1", "2", "3", "4", "5", "6", "7", "8", "9">>

\* strconv.Itoa, and %d of fmt.Sprintf, for the values of a uint16
Itoa(n) ==
    LET digit(unit) == DecimalDigit[((n \div unit) % 10) + 1]
    IN  IF n < 10 THEN digit(1)
        ELSE IF n < 100 THEN digit(10) \o digit(1)
        ELSE IF n < 1000 THEN digit(100) \o digit(10) \o digit(1)
        ELSE IF n < 10000
        THEN digit(1000) \o digit(100) \o digit(10) \o digit(1)
        ELSE digit(10000) \o digit(1000) \o digit(100) \o digit(10)
                 \o digit(1)

\* the empty Go string, as a byte sequence
Empty == <<>>

\* tags[k] of a Go map: the zero value when k is absent
Get(tags, k) == IF k \in DOMAIN tags THEN tags[k] ELSE Empty
\* tags[k] = v for every k of the map more
SetAll(tags, more) == more @@ tags

\* fmt.Sprintf("%s_%s_%s", ...) of the service id
ServiceId(pod) ==
    Labels(pod, "DICE_APPLICATION_ID") \o "_"
        \o Annotations(pod, "msp.erda.cloud/runtime_name") \o "_"
        \o Labels(pod, "DICE_SERVICE_NAME")

\* ---------------------------------------------------------- HTTP enricher
measurementGroup == "application_http"
measurementGroupError == "application_http_error"
measurementGroupDuration == "application_http_slow"

\* status codes around the threshold, and the ends of the u16 range
HttpStatusSpan == 2
HttpStatusCodes ==
    {0, 65535} \cup ((200 - HttpStatusSpan)..(200 + HttpStatusSpan))

\* the ebpf.Metric values Convert is given
HttpMetrics ==
    [Method : {"GET"}, Path : {"/api"}, Version : {"HTTP/1.1"},
     StatusCode : HttpStatusCodes, SourceIP : IPs, DestIP : IPs,
     DestPort : {8080}]

\* the tags of the metric.Metric literal
HttpBaseTags(m) ==
    [k \in {"metric_source", "_meta", "_metric_scope", "span_kind",
            "http_method", "http_path", "http_status_code", "http_target",
            "http_version", "http_url"} |->
        CASE k = "metric_source" -> "ebpf"
          [] k = "_meta" -> "true"
          [] k = "_metric_scope" -> "micro_service"
          [] k = "span_kind" -> "server"
          [] k = "http_method" -> m.Method
          [] k = "http_path" -> m.Path
          [] k = "http_status_code" -> Itoa(m.StatusCode)
          [] k = "http_target" -> m.Path
          [] k = "http_version" -> m.Version
          [] k = "http_url" ->
               "http://" \o m.DestIP \o ":" \o Itoa(m.DestPort) \o m.Path]

\* HttpMeasurement with a fault: the threshold test is >=
HttpMeasurementFrom200(statusCode) ==
    IF statusCode >= 200 THEN measurementGroupError ELSE measurementGroup

\* measurement := measurementGroup; if m.StatusCode > 200 {...}
HttpMeasurement(statusCode) ==
    IF statusCode > 200 THEN measurementGroupError ELSE measurementGroup

\* HttpTarget with a fault: the Service lookup comes first
HttpTargetServiceFirst(destIP) ==
    IF GetService(destIP) # Nil THEN GetService(destIP)
    ELSE IF GetPodByUID(destIP) # Nil THEN GetPodByUID(destIP)
    ELSE Nil

\* var target any: the Pod at DestIP, else the Service at DestIP, else nil
HttpTarget(destIP) ==
    IF GetPodByUID(destIP) # Nil THEN GetPodByUID(destIP)
    ELSE IF GetService(destIP) # Nil THEN GetService(destIP)
    ELSE Nil

\* case corev1.Pod: the tags read from the target Pod t
HttpTargetPodTags(m, t) ==
    [k \in {"cluster_name", "db_host", "org_name", "peer_address",
            "peer_hostname", "target_application_id",
            "target_application_name", "target_org_id", "target_project_id",
            "target_project_name", "target_runtime_id", "target_runtime_name",
            "target_service_id", "target_service_instance_id",
            "target_service_name", "target_terminus_key",
            "target_workspace"} |->
        CASE k = "cluster_name" -> Labels(t, "DICE_CLUSTER_NAME")
          [] k = "db_host" -> m.DestIP \o ":" \o Itoa(m.DestPort)
          [] k = "org_name" -> Labels(t, "DICE_ORG_NAME")
          [] k = "peer_address" -> m.DestIP \o ":" \o Itoa(m.DestPort)
          [] k = "peer_hostname" -> ""
          [] k = "target_application_id" -> Labels(t, "DICE_APPLICATION_ID")
          [] k = "target_application_name" ->
               Labels(t, "DICE_APPLICATION_NAME")
          [] k = "target_org_id" -> Labels(t, "DICE_ORG_ID")
          [] k = "target_project_id" -> Labels(t, "DICE_PROJECT_ID")
          [] k = "target_project_name" -> Labels(t, "DICE_PROJECT_NAME")
          [] k = "target_runtime_id" -> Labels(t, "DICE_RUNTIME_ID")
          [] k = "target_runtime_name" ->
               Annotations(t, "msp.erda.cloud/runtime_name")
          [] k = "target_service_id" -> ServiceId(t)
          [] k = "target_service_instance_id" -> UID(t)
          [] k = "target_service_name" ->
               Annotations(t, "msp.erda.cloud/service_name")
          [] k = "target_terminus_key" ->
               Annotations(t, "msp.erda.cloud/terminus_key")
          [] k = "target_workspace" ->
               Annotations(t, "msp.erda.cloud/workspace")]

\* case corev1.Pod: the tags read from the source Pod
HttpSourcePodTags(sourcePod) ==
    [k \in {"source_application_id", "source_application_name",
            "source_org_id", "source_project_id", "source_project_name",
            "source_runtime_id", "source_runtime_name", "source_service_id",
            "source_service_instance_id", "source_service_name",
            "source_terminus_key", "source_workspace"} |->
        CASE k = "source_application_id" ->
               Labels(sourcePod, "DICE_APPLICATION_ID")
          [] k = "source_application_name" ->
               Labels(sourcePod, "DICE_APPLICATION_NAME")
          [] k = "source_org_id" -> Labels(sourcePod, "DICE_ORG_ID")
          [] k = "source_project_id" -> Labels(sourcePod, "DICE_PROJECT_ID")
          [] k = "source_project_name" ->
               Labels(sourcePod, "DICE_PROJECT_NAME")
          [] k = "source_runtime_id" -> Labels(sourcePod, "DICE_RUNTIME_ID")
          [] k = "source_runtime_name" ->
               Annotations(sourcePod, "msp.erda.cloud/runtime_name")
          [] k = "source_service_id" -> ServiceId(sourcePod)
          [] k = "source_service_instance_id" -> UID(sourcePod)
          [] k = "source_service_name" ->
               Annotations(sourcePod, "msp.erda.cloud/service_name")
          [] k = "source_terminus_key" ->
               Annotations(sourcePod, "msp.erda.cloud/terminus_key")
          [] k = "source_workspace" ->
               Annotations(sourcePod, "msp.erda.cloud/workspace")]

\* provider.Convert: the metric, or Nil for a nil return
Convert(m) ==
    LET measurement == HttpMeasurement(m.StatusCode)
        sourcePod == GetPodByUID(m.SourceIP)
        target == HttpTarget(m.DestIP)
        base == HttpBaseTags(m)
    IN  IF sourcePod = Nil THEN Nil
        ELSE IF target = Nil THEN Nil
        ELSE IF target.kind = "Pod"
        THEN [Name |-> measurement, Measurement |-> measurement,
              OrgName |-> Labels(target, "DICE_ORG_NAME"),
              Tags |-> SetAll(SetAll(base, HttpTargetPodTags(m, target)),
                              HttpSourcePodTags(sourcePod))]
        ELSE [Name |-> measurement, Measurement |-> measurement,
              OrgName |-> "", Tags |-> base]

\* ----------------------------------------------------------- RPC enricher
rpcMeasurementGroup == "application_rpc"
RPC_TYPE_DUBBO == "dubbo"
RPC_TYPE_HTTP == "http"

Letters ==
    {"a", "b", "c", "d", "e", "f", "g", "h", "i", "j", "k", "l", "m", "n",
     "o", "p", "q", "r", "s", "t", "u", "v", "w", "x", "y", "z",
     "A", "B", "C", "D", "E", "F", "G", "H", "I", "J", "K", "L", "M", "N",
     "O", "P", "Q", "R", "S", "T", "U", "V", "W", "X", "Y", "Z"}
\* [a-zA-Z.], [0-9.] and [a-zA-Z/;]
ClassService == Letters \cup {"."}
ClassVersion == {DecimalDigit[i] : i \in 1..10} \cup {"."}
ClassMethod == Letters \cup {"/", ";"}

\* the number of consecutive bytes of s from position k on that are in class
RunLen(s, k, class) ==
    Cardinality({n \in 1..(Len(s) - k + 1) :
                    \A j \in k..(k + n - 1) : s[j] \in class})

\* the greatest member of a set of lengths, 0 when it is empty
Longest(lens) ==
    IF lens = {} THEN 0 ELSE CHOOSE n \in lens : \A o \in lens : o <= n

\* ([0-9.]+)([a-zA-Z/;]+) from position k: the length of group 3, greedy
VersionLen(s, k) ==
    Longest({d \in 1..RunLen(s, k, ClassVersion) :
                RunLen(s, k + d, ClassMethod) >= 1})

\* ([a-zA-Z.]+)([0-9.]+)([a-zA-Z/;]+) from position k: the length of group 2
ServiceLen(s, k) ==
    Longest({a \in 1..RunLen(s, k, ClassService) :
                VersionLen(s, k + a) >= 1})

\* (.*)! from position from, with "!" at position bang and the rest matching
BangAt(s, from, bang) ==
    /\ s[bang] = "!"
    /\ \A j \in from..(bang - 1) : s[j] # "\n"
    /\ ServiceLen(s, bang + 1) >= 1

\* pathRegexp.FindStringSubmatch(s): the leftmost match, each group greedy;
\* <<match, g1, g2, g3, g4>>, or <<>> for nil
FindStringSubmatch(s) ==
    LET starts == {f \in 1..Len(s) : \E b \in f..Len(s) : BangAt(s, f, b)}
    IN  IF starts = {} THEN <<>>
        ELSE LET from == CHOOSE f \in starts : \A o \in starts : f <= o
                 bangs == {b \in from..Len(s) : BangAt(s, from, b)}
                 bang == CHOOSE b \in bangs : \A o \in bangs : o <= b
                 a == ServiceLen(s, bang + 1)
                 d == VersionLen(s, bang + 1 + a)
                 n == RunLen(s, bang + 1 + a + d, ClassMethod)
                 g2 == bang + 1
                 g3 == g2 + a
                 g4 == g3 + d
             IN  << SubSeq(s, from, g4 + n - 1),
                    SubSeq(s, from, bang - 1),
                    SubSeq(s, g2, g3 - 1),
                    SubSeq(s, g3, g4 - 1),
                    SubSeq(s, g4, g4 + n - 1) >>

\* parseLine[n] of the Go slice
Group(parseLine, n) == parseLine[n + 1]

\* the tags set when the Pod at m.SrcIP is found, before the framing branch
RpcTargetHead(m, targetPod) ==
    [k \in {"cluster_name", "component", "db_host", "method",
            "_metric_scope_id"} |->
        CASE k = "cluster_name" -> Labels(targetPod, "DICE_CLUSTER_NAME")
          [] k = "component" -> m.RpcType
          [] k = "db_host" -> m.SrcIP \o ":" \o Itoa(m.SrcPort)
          [] k = "method" -> m.Path
          [] k = "_metric_scope_id" ->
               Annotations(targetPod, "msp.erda.cloud/terminus_key")]

\* if m.Status == "20" {...} else {...}, and the same with "200"
RpcError(status, success) == IF status = success THEN "false" ELSE "true"

\* if m.RpcType == rpcebpf.RPC_TYPE_DUBBO {...} else {...}
RpcFraming(m, rpcService, rpcVersion, rpcMethod, serviceVersion) ==
    IF m.RpcType = RPC_TYPE_DUBBO
    THEN [k \in {"dubbo_service", "dubbo_version", "dubbo_method",
                 "service_version", "error"} |->
            CASE k = "dubbo_service" -> rpcService
              [] k = "dubbo_version" -> rpcVersion
              [] k = "dubbo_method" -> rpcMethod
              [] k = "service_version" -> serviceVersion
              [] k = "error" -> RpcError(m.Status, "20")]
    ELSE [k \in {"error"} |-> RpcError(m.Status, "200")]

\* the tags set after the framing branch; tags is the map so far
RpcTargetTail(m, targetPod, tags) ==
    [k \in {"host_ip", "org_name", "peer_address", "peer_service",
            "rpc_method", "rpc_service", "span_kind",
            "target_application_id", "target_application_name",
            "target_org_id", "target_project_id", "target_project_name",
            "target_runtime_id", "target_runtime_name", "target_service_id",
            "target_service_instance_id", "target_service_name",
            "target_terminus_key", "target_workspace"} |->
        CASE k = "host_ip" -> HostIP(targetPod)
          [] k = "org_name" -> Labels(targetPod, "DICE_ORG_NAME")
          [] k = "peer_address" -> m.DstIP \o ":" \o Itoa(m.DstPort)
          [] k = "peer_service" -> m.Path
          [] k = "rpc_method" -> Get(tags, "dubbo_method")
          [] k = "rpc_service" -> Get(tags, "dubbo_service")
          [] k = "span_kind" -> "server"
          [] k = "target_application_id" ->
               Labels(targetPod, "DICE_APPLICATION_ID")
          [] k = "target_application_name" ->
               Labels(targetPod, "DICE_APPLICATION_NAME")
          [] k = "target_org_id" -> Labels(targetPod, "DICE_ORG_ID")
          [] k = "target_project_id" -> Labels(targetPod, "DICE_PROJECT_ID")
          [] k = "target_project_name" ->
               Labels(targetPod, "DICE_PROJECT_NAME")
          [] k = "target_runtime_id" -> Labels(targetPod, "DICE_RUNTIME_ID")
          [] k = "target_runtime_name" ->
               Annotations(targetPod, "msp.erda.cloud/runtime_name")
          [] k = "target_service_id" -> ServiceId(targetPod)
          [] k = "target_service_instance_id" -> UID(targetPod)
          [] k = "target_service_name" ->
               Annotations(targetPod, "msp.erda.cloud/service_name")
          [] k = "target_terminus_key" ->
               Annotations(targetPod, "msp.erda.cloud/terminus_key")
          [] k = "target_workspace" ->
               Annotations(targetPod, "msp.erda.cloud/workspace")]

\* the tags set when the Pod at m.DstIP is found
RpcSourceTags(sourcePod) ==
    [k \in {"source_application_id", "source_application_name",
            "source_org_id", "source_project_id", "source_project_name",
            "source_runtime_id", "source_runtime_name", "source_service_id",
            "source_workspace"} |->
        CASE k = "source_application_id" ->
               Labels(sourcePod, "DICE_APPLICATION_ID")
          [] k = "source_application_name" ->
               Labels(sourcePod, "DICE_APPLICATION_NAME")
          [] k = "source_org_id" -> Labels(sourcePod, "DICE_ORG_ID")
          [] k = "source_project_id" -> Labels(sourcePod, "DICE_PROJECT_ID")
          [] k = "source_project_name" ->
               Labels(sourcePod, "DICE_PROJECT_NAME")
          [] k = "source_runtime_id" -> Labels(sourcePod, "DICE_RUNTIME_ID")
          [] k = "source_runtime_name" ->
               Annotations(sourcePod, "msp.erda.cloud/runtime_name")
          [] k = "source_service_id" -> ServiceId(sourcePod)
          [] k = "source_workspace" ->
               Annotations(sourcePod, "msp.erda.cloud/workspace")]

\* rpcTarget: fmt.Sprintf("%s.%s", parseLine[2], parseLine[4]) on a match,
\* m.Path otherwise
RpcTarget(path, parseLine) ==
    IF Len(parseLine) = 5
    THEN Group(parseLine, 2) \o <<".">> \o Group(parseLine, 4)
    ELSE path

\* rpcMethod, rpcService, rpcVersion, serviceVersion: a group of the match,
\* or the zero value
RpcPart(parseLine, n) ==
    IF Len(parseLine) = 5 THEN Group(parseLine, n) ELSE Empty

\* the tags set before the lookups
RpcBaseTags(m, parseLine) ==
    [k \in {"metric_source", "_meta", "_metric_scope", "rpc_target"} |->
        CASE k = "metric_source" -> "ebpf"
          [] k = "_meta" -> "true"
          [] k = "_metric_scope" -> "micro_service"
          [] k = "rpc_target" -> RpcTarget(m.Path, parseLine)]

\* res.Tags["host_ip"] = ... to res.Tags["target_workspace"] = ...
RpcWithTail(m, targetPod, tags) ==
    SetAll(tags, RpcTargetTail(m, targetPod, tags))

\* targetPod, err := GetPodByUID(m.SrcIP); if err == nil {...}
RpcWithTarget(m, parseLine, targetPod, tags) ==
    IF targetPod = Nil THEN tags
    ELSE RpcWithTail(m, targetPod,
             SetAll(SetAll(tags, RpcTargetHead(m, targetPod)),
                    RpcFraming(m, RpcPart(parseLine, 2), RpcPart(parseLine, 1),
                               RpcPart(parseLine, 4), RpcPart(parseLine, 3))))

\* sourcePod, err := GetPodByUID(m.DstIP); if err == nil {...}
RpcWithSource(sourcePod, tags) ==
    IF sourcePod = Nil THEN tags ELSE SetAll(tags, RpcSourceTags(sourcePod))

\* res.OrgName
RpcOrgName(targetPod) ==
    IF targetPod = Nil THEN "" ELSE Labels(targetPod, "DICE_ORG_NAME")

\* convertRpc2Metric with the match and the two lookups done
RpcMetricOf(m, parseLine, targetPod, sourcePod) ==
    [Name |-> rpcMeasurementGroup,
     Measurement |-> rpcMeasurementGroup,
     OrgName |-> RpcOrgName(targetPod),
     Tags |-> RpcWithSource(sourcePod,
                  RpcWithTarget(m, parseLine, targetPod,
                                RpcBaseTags(m, parseLine))),
     Fields |-> [k \in {"elapsed_count", "elapsed_sum", "elapsed_max",
                        "elapsed_min", "elapsed_mean"} |->
                    IF k = "elapsed_count" THEN 1 ELSE m.Duration]]

\* provider.convertRpc2Metric
convertRpc2Metric(m) ==
    RpcMetricOf(m, FindStringSubmatch(m.Path), GetPodByUID(m.SrcIP),
                GetPodByUID(m.DstIP))

\* the paths raw RPC events carry
PathDubbo ==
    <<"2", ".", "0", ".", "0", "!", "c", "o", "m", ".", "a", "c", "m", "e",
      ".", "S", "v", "c", "1", ".", "0", ".", "0", "/", "h", "e", "l", "l",
      "o">>
PathShort == <<"1", "!", "a", ".", "B", "2", "/", "m">>
PathBare == <<"1", "!", "a", "2", "m", ";">>
PathWeird == <<"w", "e", "i", "r", "d">>
RpcPaths == {<<>>, PathDubbo, PathShort, PathBare, PathWeird}
RpcStatuses == {"", "20", "21", "200", "500"}

\* the rpcebpf.Metric values the probes decode
RpcMetrics ==
    [RpcType : {RPC_TYPE_DUBBO, RPC_TYPE_HTTP}, Status : RpcStatuses,
     Path : RpcPaths, SrcIP : IPs, SrcPort : {20880}, DstIP : IPs,
     DstPort : {40000}, Duration : {7}]

\* ---------------------------------------------------------------- Gather
\* rpcebpf.NewEbpf(index, ip, p.ch) followed by a successful proj.Load(spec)
NewLoaded(i) == [index |-> i, st |-> "loaded", closes |-> 0]
\* rpcebpf.NewEbpf(index, ip, p.ch) followed by a failing proj.Load(spec)
NewFailed(i) == [index |-> i, st |-> "failed", closes |-> 0]

\* ebpf.LoadCollectionSpecFromReader: err == nil
LoadCollectionSpecOk ==
    /\ pc = "parse"
    /\ pc' = "vethes"
    /\ UNCHANGED <<vethes, rpcProbes, locked, probes, event, vethEvents,
                   registered, delivered, lastEvt, spc, pipeVars, convVars>>

\* ebpf.LoadCollectionSpecFromReader: err != nil, panic(err)
LoadCollectionSpecFail ==
    /\ pc = "parse"
    /\ pc' = "panicked"
    /\ UNCHANGED <<vethes, rpcProbes, locked, probes, event, vethEvents,
                   registered, delivered, lastEvt, spc, pipeVars, convVars>>

\* p.kprobeHelper.GetVethes(): err == nil
GetVethesOk ==
    /\ pc = "vethes"
    /\ \E snap \in Snapshots :
          /\ vethes' = snap
          /\ lastEvt' = [i \in Ifaces |->
                IF \E k \in 1..Len(snap) : snap[k] = i THEN LinkAdd ELSE "none"]
    /\ pc' = "snap"
    /\ UNCHANGED <<rpcProbes, locked, probes, event, vethEvents, registered,
                   delivered, spc, pipeVars, convVars>>

\* p.kprobeHelper.GetVethes(): err != nil, panic(err)
GetVethesFail ==
    /\ pc = "vethes"
    /\ pc' = "panicked"
    /\ UNCHANGED <<vethes, rpcProbes, locked, probes, event, vethEvents,
                   registered, delivered, lastEvt, spc, pipeVars, convVars>>

\* snapshot loop body, up to the Load: NewEbpf and a Load that succeeds
SnapshotLoadOk ==
    /\ pc = "snap"
    /\ vethes # <<>>
    /\ probes' = Append(probes, NewLoaded(Head(vethes)))
    /\ pc' = "snap_insert"
    /\ UNCHANGED <<vethes, rpcProbes, locked, event, vethEvents, registered,
                   delivered, lastEvt, spc, pipeVars, convVars>>

\* snapshot loop body: the Load fails, log.Fatalf exits the process
SnapshotLoadFail ==
    /\ pc = "snap"
    /\ vethes # <<>>
    /\ probes' = Append(probes, NewFailed(Head(vethes)))
    /\ pc' = "exited"
    /\ UNCHANGED <<vethes, rpcProbes, locked, event, vethEvents, registered,
                   delivered, lastEvt, spc, pipeVars, convVars>>

\* snapshot loop body after the Load: Lock, store, Unlock; no existence check
SnapshotInsert ==
    /\ pc = "snap_insert"
    /\ ~locked
    /\ rpcProbes' = MapPut(rpcProbes, Head(vethes), Len(probes))
    /\ vethes' = Tail(vethes)
    /\ pc' = "snap"
    /\ UNCHANGED <<locked, probes, event, vethEvents, registered, delivered,
                   lastEvt, spc, pipeVars, convVars>>

\* go p.sendMetrics(c), once the snapshot loop is over
GoSendMetrics ==
    /\ pc = "snap"
    /\ vethes = <<>>
    /\ spc' = "recv"
    /\ pc' = "register"
    /\ UNCHANGED <<vethes, rpcProbes, locked, probes, event, vethEvents,
                   registered, delivered, lastEvt, pipeVars, convVars>>

\* p.kprobeHelper.RegisterNetLinkListener()
RegisterNetLinkListener ==
    /\ pc = "register"
    /\ registered' = TRUE
    /\ pc' = "idle"
    /\ UNCHANGED <<vethes, rpcProbes, locked, probes, event, vethEvents,
                   delivered, lastEvt, spc, pipeVars, convVars>>

\* the netlink listener reports one link change made after GetVethes took
\* the snapshot; the loop reads the reports from the channel
\* RegisterNetLinkListener returns
ObserverEmit ==
    /\ pc \notin {"parse", "vethes"}
    /\ pc \notin {"exited", "panicked"}
    /\ delivered < MaxEvents
    /\ Len(vethEvents) < MaxQueue
    /\ \E e \in VethEvents :
          /\ vethEvents' = Append(vethEvents, e)
          /\ lastEvt' = IF e.type = LinkOther THEN lastEvt
                        ELSE [lastEvt EXCEPT ![e.index] = e.type]
    /\ delivered' = delivered + 1
    /\ UNCHANGED <<pc, vethes, rpcProbes, locked, probes, event, registered,
                   spc, pipeVars, convVars>>

\* Receives with a fault: the loop takes no event while sendMetrics waits
\* to send
ReceivesWhenConsumerReady(type) ==
    /\ pc = "idle"
    /\ spc # "send"
    /\ vethEvents # <<>>
    /\ Head(vethEvents).type = type
    /\ event' = Head(vethEvents)
    /\ vethEvents' = Tail(vethEvents)

\* the loop receives an event from vethEvents
Receives(type) ==
    /\ pc = "idle"
    /\ vethEvents # <<>>
    /\ Head(vethEvents).type = type
    /\ event' = Head(vethEvents)
    /\ vethEvents' = Tail(vethEvents)

\* case kprobe.LinkAdd, the entry exists: Lock, Unlock, continue
LinkAddExists ==
    /\ Receives(LinkAdd)
    /\ ~locked
    /\ Head(vethEvents).index \in DOMAIN rpcProbes
    /\ UNCHANGED <<pc, vethes, rpcProbes, locked, probes, registered,
                   delivered, lastEvt, spc, pipeVars, convVars>>

\* case kprobe.LinkAdd, no entry: Lock, then NewEbpf and Load under the lock
LinkAddBegin ==
    /\ Receives(LinkAdd)
    /\ ~locked
    /\ Head(vethEvents).index \notin DOMAIN rpcProbes
    /\ locked' = TRUE
    /\ pc' = "add_load"
    /\ UNCHANGED <<vethes, rpcProbes, probes, registered, delivered, lastEvt,
                   spc, pipeVars, convVars>>

\* case kprobe.LinkAdd: the Load succeeds; store the probe, Unlock
LinkAddLoadOk ==
    /\ pc = "add_load"
    /\ probes' = Append(probes, NewLoaded(event.index))
    /\ rpcProbes' = MapPut(rpcProbes, event.index, Len(probes) + 1)
    /\ locked' = FALSE
    /\ pc' = "idle"
    /\ UNCHANGED <<vethes, event, vethEvents, registered, delivered, lastEvt,
                   spc, pipeVars, convVars>>

\* case kprobe.LinkAdd: the Load fails, log.Fatalf exits the process
LinkAddLoadFail ==
    /\ pc = "add_load"
    /\ probes' = Append(probes, NewFailed(event.index))
    /\ pc' = "exited"
    /\ UNCHANGED <<vethes, rpcProbes, locked, event, vethEvents, registered,
                   delivered, lastEvt, spc, pipeVars, convVars>>

\* LinkDeleteAbsent with a fault: the miss leaves without Unlock
LinkDeleteAbsentKeepsLock ==
    /\ Receives(LinkDelete)
    /\ ~locked
    /\ Head(vethEvents).index \notin DOMAIN rpcProbes
    /\ locked' = TRUE
    /\ UNCHANGED <<pc, vethes, rpcProbes, probes, registered, delivered,
                   lastEvt, spc, pipeVars, convVars>>

\* case kprobe.LinkDelete, no entry: Lock, lookup misses, Unlock
LinkDeleteAbsent ==
    /\ Receives(LinkDelete)
    /\ ~locked
    /\ Head(vethEvents).index \notin DOMAIN rpcProbes
    /\ UNCHANGED <<pc, vethes, rpcProbes, locked, probes, registered,
                   delivered, lastEvt, spc, pipeVars, convVars>>

\* case kprobe.LinkDelete, the entry exists: Lock, lookup hits
LinkDeleteBegin ==
    /\ Receives(LinkDelete)
    /\ ~locked
    /\ Head(vethEvents).index \in DOMAIN rpcProbes
    /\ locked' = TRUE
    /\ pc' = "del_close"
    /\ UNCHANGED <<vethes, rpcProbes, probes, registered, delivered, lastEvt,
                   spc, pipeVars, convVars>>

\* rpcebpf.Ebpf.Close()
Close(proj) == [proj EXCEPT !.st = "closed", !.closes = @ + 1]

\* case kprobe.LinkDelete: proj.Close()
LinkDeleteClose ==
    /\ pc = "del_close"
    /\ probes' = [probes EXCEPT ![rpcProbes[event.index]] = Close(@)]
    /\ pc' = "del_delete"
    /\ UNCHANGED <<vethes, rpcProbes, locked, event, vethEvents, registered,
                   delivered, lastEvt, spc, pipeVars, convVars>>

\* LinkDeleteRemove with a fault: the delete is forgotten
LinkDeleteRemoveKeepsEntry ==
    /\ pc = "del_delete"
    /\ locked' = FALSE
    /\ pc' = "idle"
    /\ UNCHANGED <<vethes, rpcProbes, probes, event, vethEvents, registered,
                   delivered, lastEvt, spc, pipeVars, convVars>>

\* case kprobe.LinkDelete: delete(p.rpcProbes, index), Unlock
LinkDeleteRemove ==
    /\ pc = "del_delete"
    /\ rpcProbes' = MapDelete(rpcProbes, event.index)
    /\ locked' = FALSE
    /\ pc' = "idle"
    /\ UNCHANGED <<vethes, probes, event, vethEvents, registered, delivered,
                   lastEvt, spc, pipeVars, convVars>>

\* default: unknown event type, logged
LinkUnknown ==
    /\ Receives(LinkOther)
    /\ UNCHANGED <<pc, vethes, rpcProbes, locked, probes, registered,
                   delivered, lastEvt, spc, pipeVars, convVars>>

\* every step of Gather but the successful GetVethes
GatherSteps ==
    \/ LoadCollectionSpecOk
    \/ LoadCollectionSpecFail
    \/ GetVethesFail
    \/ SnapshotLoadOk
    \/ SnapshotLoadFail
    \/ SnapshotInsert
    \/ GoSendMetrics
    \/ RegisterNetLinkListener
    \/ LinkAddExists
    \/ LinkAddBegin
    \/ LinkAddLoadOk
    \/ LinkAddLoadFail
    \/ LinkDeleteAbsent
    \/ LinkDeleteBegin
    \/ LinkDeleteClose
    \/ LinkDeleteRemove
    \/ LinkUnknown

GatherNext == GetVethesOk \/ GatherSteps

\* the registry alone: no kernel traffic reaches the probes
RegistryNext == GatherNext \/ ObserverEmit
SpecRegistry == Init /\ [][RegistryNext]_vars

\* ------------------------------------------------------------ sendMetrics
\* the process runs: neither log.Fatalf nor panic has ended it
Alive == pc \notin {"exited", "panicked"}

\* the raw events the probes submit in the pipeline
PipelineEvents ==
    {m \in RpcMetrics :
        /\ m.RpcType = RPC_TYPE_DUBBO
        /\ m.SrcIP = "10.0.0.1" /\ m.DstIP = "10.0.0.2"
        /\ \/ m.Status = "20" /\ m.Path = PathShort
           \/ m.Status = "" /\ m.Path = PathShort
           \/ m.Status = "20" /\ m.Path = <<>>}

\* the streaming task of a loaded probe submits one raw event to p.ch
\* without blocking: a full channel drops it. The k-th submitted event has
\* Duration k, which tells the events apart downstream.
ProbeSubmit ==
    /\ Alive
    /\ emitted < MaxEmitted
    /\ \E n \in 1..Len(probes) : probes[n].st = "loaded"
    /\ \E m \in PipelineEvents :
          ch' = IF Len(ch) < ChCap
                THEN Append(ch, [m EXCEPT !.Duration = emitted + 1])
                ELSE ch
    /\ emitted' = emitted + 1
    /\ UNCHANGED <<regVars, spc, c, mc, sent, convVars>>

\* case m := <-p.ch with an empty Status or Path: continue
SendMetricsSkip ==
    /\ Alive
    /\ spc = "recv"
    /\ ch # <<>>
    /\ Head(ch).Status = "" \/ Len(Head(ch).Path) = 0
    /\ ch' = Tail(ch)
    /\ UNCHANGED <<regVars, spc, c, mc, emitted, sent, convVars>>

\* SendMetricsConvert with a fault: only an empty Status is skipped
SendMetricsConvertIgnoresPath ==
    /\ Alive
    /\ spc = "recv"
    /\ ch # <<>>
    /\ ~(Head(ch).Status = "")
    /\ ch' = Tail(ch)
    /\ mc' = convertRpc2Metric(Head(ch))
    /\ spc' = "send"
    /\ UNCHANGED <<regVars, c, emitted, sent, convVars>>

\* case m := <-p.ch: mc := p.convertRpc2Metric(&m)
SendMetricsConvert ==
    /\ Alive
    /\ spc = "recv"
    /\ ch # <<>>
    /\ ~(Head(ch).Status = "" \/ Len(Head(ch).Path) = 0)
    /\ ch' = Tail(ch)
    /\ mc' = convertRpc2Metric(Head(ch))
    /\ spc' = "send"
    /\ UNCHANGED <<regVars, c, emitted, sent, convVars>>

\* SendMetricsSend with a fault: an event waiting in p.ch overtakes the
\* metric in hand
SendMetricsSendOvertaken ==
    /\ Alive
    /\ spc = "send"
    /\ Len(c) < OutCap
    /\ IF ch # <<>> /\ Head(ch).Status # "" /\ Head(ch).Path # <<>>
       THEN /\ c' = Append(c, convertRpc2Metric(Head(ch)))
            /\ sent' = Append(sent, Head(ch).Duration)
            /\ ch' = Tail(ch)
            /\ UNCHANGED <<mc, spc>>
       ELSE /\ c' = Append(c, mc)
            /\ sent' = Append(sent, mc.Fields["elapsed_sum"])
            /\ mc' = Nil
            /\ spc' = "recv"
            /\ ch' = ch
    /\ UNCHANGED <<regVars, emitted, convVars>>

\* c <- mc: the send waits until the channel has room
SendMetricsSend ==
    /\ Alive
    /\ spc = "send"
    /\ Len(c) < OutCap
    /\ c' = Append(c, mc)
    /\ sent' = Append(sent, mc.Fields["elapsed_sum"])
    /\ mc' = Nil
    /\ spc' = "recv"
    /\ UNCHANGED <<regVars, ch, emitted, convVars>>

\* the downstream consumer takes one metric from the outbound channel
SinkReceive ==
    /\ Alive
    /\ c # <<>>
    /\ c' = Tail(c)
    /\ UNCHANGED <<regVars, spc, ch, mc, emitted, sent, convVars>>

SendMetricsNext == SendMetricsSkip \/ SendMetricsConvert \/ SendMetricsSend

Next ==
    GatherNext \/ ObserverEmit \/ ProbeSubmit \/ SendMetricsNext \/ SinkReceive
Spec == Init /\ [][Next]_vars

\* The pipeline next to a registry whose host has the links of PipeLinks
\* only: the snapshot lists them (repeats included) and the listener reports
\* changes of them.
PipeLinks == {1}

PipeScope ==
    /\ \A k \in 1..Len(vethes) : vethes[k] \in PipeLinks
    /\ \A k \in 1..Len(vethEvents) : vethEvents[k].index \in PipeLinks

PipeGetVethes == GetVethesOk /\ PipeScope'

PipeObserverEmit == ObserverEmit /\ PipeScope'

PipeNext ==
    \/ PipeGetVethes
    \/ PipeObserverEmit
    \/ GatherSteps
    \/ ProbeSubmit
    \/ SendMetricsNext
    \/ SinkReceive

SpecPipe == Init /\ [][PipeNext]_vars

\* The Go scheduler runs the Gather goroutine whenever it can take a step.
\* Nothing is assumed of the listener, the probes, sendMetrics or the
\* consumer of c.
FairRegistry == SpecRegistry /\ WF_vars(GatherNext)
FairPipe == SpecPipe /\ WF_vars(GatherSteps)

\* --------------------------------------------------------------- enrichers
\* the HTTP plugin hands one decoded event to Convert (the functions are
\* pure: one conversion per behaviour covers every input)
HttpConvert ==
    /\ convIn = Nil
    /\ \E m \in HttpMetrics :
          /\ convIn' = m
          /\ convOut' = Convert(m)
    /\ UNCHANGED <<regVars, spc, pipeVars>>

\* convertRpc2Metric applied to one decoded event
RpcConvert ==
    /\ convIn = Nil
    /\ \E m \in RpcMetrics :
          /\ convIn' = m
          /\ convOut' = convertRpc2Metric(m)
    /\ UNCHANGED <<regVars, spc, pipeVars>>

EnrichNext == HttpConvert \/ RpcConvert
SpecEnrich == Init /\ [][EnrichNext]_vars

\* ------------------------------------------------------------------ claims
\* links whose last delivered event is an Add (the snapshot counts as Adds)
LastAdded == {i \in Ifaces : lastEvt[i] = LinkAdd}

\* C1: once the loop has handled every delivered event (it waits on an empty
\* vethEvents), the keys of rpcProbes are exactly the links whose last event
\* was an Add.
C1_RegistryCorrespondence ==
    (pc = "idle" /\ vethEvents = <<>>) => DOMAIN rpcProbes = LastAdded

\* the churn of scenario S6: two links stay, one link was added and removed
C1_Witness ==
    /\ pc = "idle" /\ vethEvents = <<>>
    /\ delivered >= 2
    /\ Cardinality(DOMAIN rpcProbes) = 2
    /\ \E i \in Ifaces :
          /\ lastEvt[i] = LinkDelete
          /\ \E n \in 1..Len(probes) : probes[n].index = i

\* C2: a failed Probe load is not fatal: after it the registry loop is still
\* running and the mapping holds what it held.
C2_FailedLoadNonFatal ==
    \A n \in 1..Len(probes) : probes[n].st = "failed" => pc # "exited"

\* C3: while an entry exists for a link index, no step constructs (and loads)
\* a Probe for that index, and the mapping stays as it is.
C3_IdempotentAdd ==
    [][\A i \in DOMAIN rpcProbes :
          Len(probes') > Len(probes) =>
              /\ probes'[Len(probes')].index # i
              /\ i \in DOMAIN rpcProbes' /\ rpcProbes'[i] = rpcProbes[i]]_vars

\* C4: when the loop receives LinkDelete for an index without an entry, the
\* mapping and every Probe stay as they are, the lock is free afterwards and
\* the loop is back at the receive.
C4_IdempotentRemove ==
    [][(/\ pc = "idle"
        /\ vethEvents # <<>>
        /\ Head(vethEvents).type = LinkDelete
        /\ Head(vethEvents).index \notin DOMAIN rpcProbes
        /\ vethEvents' = Tail(vethEvents))
       => (/\ rpcProbes' = rpcProbes
           /\ probes' = probes
           /\ locked' = FALSE
           /\ pc' = "idle")]_vars

\* a LinkDelete for a link that never had a Probe has been handled
C4_Witness ==
    /\ pc = "idle"
    /\ ~locked
    /\ event.type = LinkDelete
    /\ \A n \in 1..Len(probes) : probes[n].index # event.index
    /\ rpcProbes # <<>>

\* C5: when the entry of a link index leaves the mapping, every Probe that
\* was inserted for that index has been closed, exactly once.
C5_CloseOnRemove ==
    [][\A i \in DOMAIN rpcProbes :
          i \notin DOMAIN rpcProbes' =>
              \A n \in 1..Len(probes) :
                  (probes[n].index = i /\ probes[n].st # "failed") =>
                      (probes'[n].st = "closed" /\ probes'[n].closes = 1)]_vars

\* C6: sendMetrics never waits on the outbound send: whenever it holds a
\* metric to send, its next step can be taken, also when c is full.
C6_SinkNeverBlocks ==
    (Alive /\ spc = "send") => ENABLED SendMetricsNext

IsHttp(m) == "StatusCode" \in DOMAIN m
IsRpc(m) == "RpcType" \in DOMAIN m

\* C7: an emitted HTTP metric is named application_http when the status code
\* is at most 200 and application_http_error above 200, never
\* application_http_slow.
C7_HttpClassification ==
    (IsHttp(convIn) /\ convOut # Nil) =>
        /\ convOut.Name = convOut.Measurement
        /\ convIn.StatusCode <= 200 => convOut.Measurement = "application_http"
        /\ convIn.StatusCode > 200 =>
               convOut.Measurement = "application_http_error"
        /\ convOut.Measurement # "application_http_slow"

\* a metric was emitted for status 200, the last success code
C7_Witness ==
    IsHttp(convIn) /\ convOut # Nil /\ convIn.StatusCode = 200

\* C8: Convert returns nil exactly when the source Pod is not found or the
\* destination is neither a Pod nor a Service; a destination Pod is used as
\* the target even when a Service has the same address.
C8_HttpSuppression ==
    IsHttp(convIn) =>
        LET srcPod == GetPodByUID(convIn.SourceIP)
            dstPod == GetPodByUID(convIn.DestIP)
            dstSvc == GetService(convIn.DestIP)
        IN  /\ convOut = Nil <=>
                   (srcPod = Nil \/ (dstPod = Nil /\ dstSvc = Nil))
            /\ (convOut # Nil /\ dstPod # Nil) =>
                   /\ "target_service_instance_id" \in DOMAIN convOut.Tags
                   /\ convOut.Tags["target_service_instance_id"] = UID(dstPod)
            /\ (convOut # Nil /\ dstPod = Nil) =>
                   "target_service_instance_id" \notin DOMAIN convOut.Tags

\* a metric was emitted for a destination that is both a Pod and a Service
C8_Witness ==
    /\ IsHttp(convIn) /\ convOut # Nil
    /\ GetPodByUID(convIn.DestIP) # Nil /\ GetService(convIn.DestIP) # Nil

\* C9: every RPC metric (of an event with a status and a path) carries an
\* error tag, "false" exactly for the success status of its framing, whatever
\* the lookups return.
C9_RpcErrorTag ==
    (IsRpc(convIn) /\ convIn.Status # "" /\ convIn.Path # <<>>) =>
        /\ "error" \in DOMAIN convOut.Tags
        /\ convOut.Tags["error"] = "false" <=>
               convIn.Status =
                   (IF convIn.RpcType = RPC_TYPE_DUBBO THEN "20" ELSE "200")

\* paths of the form V!S<SV>/M, by their parts
PathForms ==
    { [V |-> <<"2", ".", "0", ".", "0">>,
       S |-> <<"c", "o", "m", ".", "a", "c", "m", "e", ".", "S", "v", "c">>,
       SV |-> <<"1", ".", "0", ".", "0">>,
       M |-> <<"h", "e", "l", "l", "o">>],
      [V |-> <<"1">>, S |-> <<"a", ".", "B">>, SV |-> <<"2">>,
       M |-> <<"m">>] }
PathOf(f) == f.V \o <<"!">> \o f.S \o f.SV \o <<"/">> \o f.M

\* C10: for a Dubbo event whose source resolves to a Pod and whose path is
\* V!S<SV>/M, rpc_target is S.M and rpc_service, rpc_method, rpc_version and
\* service_version are S, M, V and SV.
C10_RpcPathRoundTrip ==
    (/\ IsRpc(convIn)
     /\ convIn.RpcType = RPC_TYPE_DUBBO
     /\ GetPodByUID(convIn.SrcIP) # Nil) =>
        \A f \in PathForms :
            convIn.Path = PathOf(f) =>
                /\ convOut.Tags["rpc_target"] = f.S \o <<".">> \o f.M
                /\ Get(convOut.Tags, "rpc_service") = f.S
                /\ Get(convOut.Tags, "rpc_method") = f.M
                /\ Get(convOut.Tags, "rpc_version") = f.V
                /\ Get(convOut.Tags, "service_version") = f.SV

\* the four tags every metric is to carry
CommonTags ==
    [k \in {"metric_source", "_meta", "_metric_scope", "span_kind"} |->
        CASE k = "metric_source" -> "ebpf"
          [] k = "_meta" -> "true"
          [] k = "_metric_scope" -> "micro_service"
          [] k = "span_kind" -> "server"]

\* the input is one for which a metric goes out: Convert returned one, or
\* sendMetrics does not skip the RPC event
Emits(m, out) ==
    IF IsHttp(m) THEN out # Nil
    ELSE IsRpc(m) /\ m.Status # "" /\ m.Path # <<>>

\* C11: every emitted metric, HTTP or RPC, carries metric_source=ebpf,
\* _meta=true, _metric_scope=micro_service and span_kind=server, whatever the
\* workload lookups return.
C11_CommonTags ==
    Emits(convIn, convOut) =>
        \A k \in DOMAIN CommonTags :
            k \in DOMAIN convOut.Tags /\ convOut.Tags[k] = CommonTags[k]

\* C13: the registry lock is never held while a Probe load (Gather is about
\* to call Load) or a Probe close (Gather is about to call Close) is in
\* progress.
C13_LockNotHeldAcrossIO ==
    locked => pc \notin {"snap", "add_load", "del_close"}

\* C14: the only step that aborts the core is a failed parse of the eBPF
\* program image.
C14_OnlyParseFailureAborts ==
    [][(Alive /\ ~Alive') => pc = "parse"]_vars

\* C17: once the registry loop no longer runs, no Probe is left open.
C17_ShutdownClosesProbes ==
    ~Alive => \A n \in 1..Len(probes) : probes[n].st # "loaded"

\* the tags of the source_* block
SourceBlock ==
    {"source_application_id", "source_application_name", "source_org_id",
     "source_project_id", "source_project_name", "source_runtime_id",
     "source_runtime_name", "source_service_id",
     "source_service_instance_id", "source_service_name",
     "source_terminus_key", "source_workspace"}

\* C18: with the source Pod found and the destination a Service and no Pod,
\* the emitted metric carries the source_* block and no target_* block.
C18_ServiceTargetSourceTags ==
    (/\ IsHttp(convIn)
     /\ GetPodByUID(convIn.SourceIP) # Nil
     /\ GetPodByUID(convIn.DestIP) = Nil
     /\ GetService(convIn.DestIP) # Nil) =>
        /\ convOut # Nil
        /\ SourceBlock \subseteq DOMAIN convOut.Tags
        /\ "target_service_instance_id" \notin DOMAIN convOut.Tags
        /\ "target_application_id" \notin DOMAIN convOut.Tags

\* C19: whenever the lock is free, every Probe that is loaded and not closed
\* is the entry of its link index, the Probe the snapshot loop is about to
\* store excepted.
C19_NoLeakedProbe ==
    ~locked =>
        \A n \in 1..Len(probes) :
            (probes[n].st = "loaded"
                 /\ ~(pc = "snap_insert" /\ n = Len(probes))) =>
                (/\ probes[n].index \in DOMAIN rpcProbes
                 /\ rpcProbes[probes[n].index] = n)

\* sendMetrics takes the head of p.ch
Takes == spc = "recv" /\ ch # <<>> /\ ch' = Tail(ch)

\* C12: an event with an empty status or path puts no metric on c and leaves
\* sendMetrics at its receive; an event with both non-empty is converted and
\* its metric is put on c exactly once, by the send that follows; nothing
\* else puts a metric on c.
C12_EmptyFieldSuppression ==
    [][/\ Takes =>
            IF Head(ch).Status = "" \/ Head(ch).Path = <<>>
            THEN c' = c /\ sent' = sent /\ mc' = mc /\ spc' = "recv"
            ELSE /\ c' = c /\ sent' = sent /\ spc' = "send"
                 /\ mc' = convertRpc2Metric(Head(ch))
       /\ (spc = "send" /\ spc' # "send") =>
            c' = Append(c, mc) /\ spc' = "recv" /\ ch' = ch
       /\ c' # c =>
            \/ c # <<>> /\ c' = Tail(c)
            \/ spc = "send" /\ c' = Append(c, mc)]_vars

\* the first submitted event went by without a metric, the second one's
\* metric is out, and sendMetrics is back at its receive
C12_Witness ==
    /\ emitted = 2
    /\ ch = <<>> /\ spc = "recv"
    /\ sent = <<2>>

\* the elapsed_sum of the metrics waiting in c
Stamps(q) == [k \in 1..Len(q) |-> q[k].Fields["elapsed_sum"]]

Reported(type, i) ==
    /\ lastEvt[i] = type
    /\ \E k \in 1..Len(vethEvents) :
          vethEvents[k] = [type |-> type, index |-> i]

\* C15: every link reported as added after the snapshot was taken, also while
\* the snapshot's probes are still being loaded, eventually has an entry, and
\* every link reported as removed eventually has none (unless a later report
\* for the link reverses it).
C15_NoLostChange ==
    \A i \in Ifaces :
        /\ Reported(LinkAdd, i) ~>
               (i \in DOMAIN rpcProbes \/ lastEvt[i] # LinkAdd)
        /\ Reported(LinkDelete, i) ~>
               (i \notin DOMAIN rpcProbes \/ lastEvt[i] # LinkDelete)

\* the number of delivered events the loop has handled to the end
Handled ==
    delivered - Len(vethEvents)
        - (IF pc \in {"add_load", "del_close", "del_delete"} THEN 1 ELSE 0)

\* C20: whatever sendMetrics and the channels do, every event delivered to
\* the loop is eventually handled to the end, as long as no Load has failed
\* (a failed Load ends the process).
C20_RegistryProgress ==
    \A k \in 1..MaxEvents :
        (delivered >= k) ~> (Handled >= k \/ ~Alive)

\* the loop is inside a handler while sendMetrics waits to send on a full c
\* and p.ch is full
C20_Witness ==
    /\ spc = "send" /\ Len(c) = OutCap
    /\ Len(ch) = ChCap
    /\ pc \in {"add_load", "del_close"}

====
